---- MODULE Spec2Model ----
(***************************************************************************)
(* Model of tape/utils/column_mapper/column_mapper.py: ColumnMapper and    *)
(* its preset subclass ZTFColumnMapper.                                    *)
(*                                                                         *)
(* Python objects live on a heap.  objs[o] is the o-th mapper instance     *)
(* (its class and the address of the dict bound to self.map), dicts[a] is  *)
(* the dict at address a.  call records the last API call: the operation,  *)
(* the receiver, the arguments, the value returned and the exception       *)
(* raised.                                                                 *)
(***************************************************************************)
EXTENDS Integers, Sequences, FiniteSets, TLC

VARIABLES objs, dicts, call

vars == <<objs, dicts, call>>

(* Python's None.  No str of the model's universe equals it. *)
None == "None"

(* Largest number of mapper instances alive at once. *)
MaxMappers == 3

(* Column names a caller passes: the empty str and an ordinary name. *)
Strings == {"", "a"}

(* The keys of self.map, in the order of the dict literal. *)
Roles == <<"id_col", "time_col", "flux_col", "err_col", "band_col">>

RoleSet == {Roles[i] : i \in 1..Len(Roles)}

(* Keyword arguments of __init__ and assign: each a str or the default None. *)
Kwargs == [RoleSet -> Strings \cup {None}]

NoKwargs == [r \in RoleSet |-> None]

(* Two calls, for programs that hold several mappers: no argument, and one *)
(* role given the empty name.                                              *)
FewKwargs ==
  { NoKwargs,
    [NoKwargs EXCEPT !["time_col"] = ""] }

(* self.required: Column(name, is_required) namedtuples. *)
required ==
  << [name |-> "id_col",   is_required |-> TRUE],
     [name |-> "time_col", is_required |-> TRUE],
     [name |-> "flux_col", is_required |-> TRUE],
     [name |-> "err_col",  is_required |-> TRUE],
     [name |-> "band_col", is_required |-> TRUE] >>

(* self.known_maps: map_id -> class. *)
known_maps == [id \in {"ZTF"} |-> "ZTFColumnMapper"]

Classes == {"ColumnMapper", "ZTFColumnMapper"}

(* The map_id arguments tried: the registered one and an unregistered one. *)
MapIds == {"ZTF", "UNKNOWN"}

(* A slip: the flux and error columns exchanged in the literal. *)
ZTFMap_swapped ==
  [id_col   |-> "ps1_objid",
   time_col |-> "midPointTai",
   flux_col |-> "psFluxErr",
   err_col  |-> "psFlux",
   band_col |-> "filterName"]

(* The dict literal of ZTFColumnMapper._set_known_map. *)
ZTFMap ==
  [id_col   |-> "ps1_objid",
   time_col |-> "midPointTai",
   flux_col |-> "psFlux",
   err_col  |-> "psFluxErr",
   band_col |-> "filterName"]

(* ColumnMapper.__init__ (inherited by ZTFColumnMapper): a new instance    *)
(* whose self.map is a new dict holding the five arguments.                *)
init(st, cls, kw) ==
  [objs  |-> Append(st.objs, [cls |-> cls, map |-> Len(st.dicts) + 1]),
   dicts |-> Append(st.dicts,
                    [id_col   |-> kw.id_col,
                     time_col |-> kw.time_col,
                     flux_col |-> kw.flux_col,
                     err_col  |-> kw.err_col,
                     band_col |-> kw.band_col])]

(* A slip: the preset dict kept once for the class and bound to every     *)
(* instance, instead of a dict literal evaluated per call.                 *)
set_known_map_shared(st, o) ==
  LET preset == {p \in 1..Len(st.objs) :
                   /\ p # o
                   /\ st.objs[p].cls = "ZTFColumnMapper"
                   /\ st.dicts[st.objs[p].map]["id_col"] = "ps1_objid"}
  IN  IF preset = {}
      THEN [objs  |-> [st.objs EXCEPT ![o].map = Len(st.dicts) + 1],
            dicts |-> Append(st.dicts, ZTFMap)]
      ELSE [objs  |-> [st.objs EXCEPT
                         ![o].map = st.objs[CHOOSE p \in preset : \A q \in preset : p <= q].map],
            dicts |-> st.dicts]

(* ZTFColumnMapper._set_known_map: rebinds self.map to a new dict. *)
set_known_map(st, o) ==
  [objs  |-> [st.objs EXCEPT ![o].map = Len(st.dicts) + 1],
   dicts |-> Append(st.dicts, ZTFMap)]

(* A slip: ZTFColumnMapper without its override of map_id. *)
map_id_base(cls) == None

(* map_id(): a static method, overridden by ZTFColumnMapper. *)
map_id(cls) == IF cls = "ZTFColumnMapper" THEN "ZTF" ELSE None

(* required_keys = [col.name for col in self.required if col.is_required] *)
RECURSIVE required_keys(_, _)
required_keys(req, i) ==
  IF i > Len(req) THEN <<>>
  ELSE (IF req[i].is_required THEN <<req[i].name>> ELSE <<>>)
       \o required_keys(req, i + 1)

(* A slip: "if not self.map[key]" for "if self.map[key] is None". *)
RECURSIVE is_ready_loop_truthy(_, _, _, _)
is_ready_loop_truthy(m, keys, i, acc) ==
  IF i > Len(keys) THEN acc
  ELSE is_ready_loop_truthy(m, keys, i + 1,
                            IF m[keys[i]] = None \/ m[keys[i]] = ""
                            THEN <<FALSE, Append(acc[2], keys[i])>>
                            ELSE acc)

(* A slip: needed.insert(0, key) for needed.append(key). *)
RECURSIVE is_ready_loop_prepend(_, _, _, _)
is_ready_loop_prepend(m, keys, i, acc) ==
  IF i > Len(keys) THEN acc
  ELSE is_ready_loop_prepend(m, keys, i + 1,
                             IF m[keys[i]] = None
                             THEN <<FALSE, <<keys[i]>> \o acc[2]>>
                             ELSE acc)

(* The loop of is_ready over required_keys; acc is <<ready, needed>>. *)
RECURSIVE is_ready_loop(_, _, _, _)
is_ready_loop(m, keys, i, acc) ==
  IF i > Len(keys) THEN acc
  ELSE is_ready_loop(m, keys, i + 1,
                     IF m[keys[i]] = None
                     THEN <<FALSE, Append(acc[2], keys[i])>>
                     ELSE acc)

(* is_ready(show_needed) on a mapper whose self.map is m. *)
is_ready(m, show_needed) ==
  LET res == is_ready_loop(m, required_keys(required, 1), 1, <<TRUE, <<>>>>)
  IN  IF show_needed THEN res ELSE res[1]

(* A slip: a key of assign_map misspelt. *)
items_typo(kw) ==
  [i \in 1..Len(Roles) |->
     <<IF Roles[i] = "time_col" THEN "time" ELSE Roles[i], kw[Roles[i]]>>]

(* assign_map.items(): the (key, value) pairs in insertion order. *)
items(kw) == [i \in 1..Len(Roles) |-> <<Roles[i], kw[Roles[i]]>>]

(* A slip: the value stored under every key. *)
setitem_all(m, key, value) == [k \in DOMAIN m \cup {key} |-> value]

(* self.map[key] = value *)
setitem(m, key, value) ==
  [k \in DOMAIN m \cup {key} |-> IF k = key THEN value ELSE m[k]]

(* A slip: the loop without its "is not None" test. *)
RECURSIVE assign_loop_all(_, _, _)
assign_loop_all(m, its, i) ==
  IF i > Len(its) THEN m
  ELSE assign_loop_all(setitem(m, its[i][1], its[i][2]), its, i + 1)

(* The loop of assign over assign_map.items(). *)
RECURSIVE assign_loop(_, _, _)
assign_loop(m, its, i) ==
  IF i > Len(its) THEN m
  ELSE assign_loop(IF its[i][2] # None THEN setitem(m, its[i][1], its[i][2]) ELSE m,
                   its, i + 1)

(* assign(kw...) on mapper o: mutates the dict self.map refers to. *)
assign(st, o, kw) ==
  [objs  |-> st.objs,
   dicts |-> [st.dicts EXCEPT ![st.objs[o].map] = assign_loop(@, items(kw), 1)]]

(* What a call is given and what it returns, tagged with the Python type: *)
(* a reference to a mapper, a bool, a tuple, a str or None.                *)
Ref(o) == [ref |-> o]

Bool(b) == [bool |-> b]

Tuple(t) == [tuple |-> t]

Value(v) == [val |-> v]

(* A call without arguments. *)
NoArgs == [noargs |-> TRUE]

(* No exception was raised. *)
NoExc == [type |-> None, msg |-> None]

(* raise ValueError(f'Unknown Mapping: "{map_id}"') *)
ValueError(id) == [type |-> "ValueError", msg |-> "Unknown Mapping: \"" \o id \o "\""]

(* A slip: an unknown map_id answered with None, dict.get style, instead  *)
(* of an exception.                                                        *)
use_known_map_get(st, id) ==
  IF id \in DOMAIN known_maps
  THEN LET st1 == init(st, known_maps[id], NoKwargs)
           new == Len(st1.objs)
       IN  [st |-> set_known_map(st1, new), ret |-> Ref(new), exc |-> NoExc]
  ELSE [st |-> st, ret |-> Value(None), exc |-> NoExc]

(* use_known_map(map_id): the heap, the value returned and the exception   *)
(* raised.  known_maps[map_id]() constructs an instance of the registered  *)
(* class with no arguments; _set_known_map() fills it and returns it.      *)
use_known_map(st, id) ==
  IF id \in DOMAIN known_maps
  THEN LET st1 == init(st, known_maps[id], NoKwargs)
           new == Len(st1.objs)
       IN  [st |-> set_known_map(st1, new), ret |-> Ref(new), exc |-> NoExc]
  ELSE [st |-> st, ret |-> Value(None), exc |-> ValueError(id)]

State == [objs |-> objs, dicts |-> dicts]

Mappers == 1..Len(objs)

(* self.map of mapper o. *)
MapOf(o) == dicts[objs[o].map]

----------------------------------------------------------------------------
(* A program constructs a first ColumnMapper with the arguments kws allow. *)
Construct(kws) ==
  \E kw \in kws :
    LET st == init([objs |-> <<>>, dicts |-> <<>>], "ColumnMapper", kw) IN
      /\ objs = st.objs
      /\ dicts = st.dicts
      /\ call = [op |-> "__init__", self |-> 1, args |-> kw, ret |-> Value(None), exc |-> NoExc]

(* ColumnMapper(kw...) or ZTFColumnMapper(kw...). *)
New(cls, kw) ==
  /\ Len(objs) < MaxMappers
  /\ LET st == init(State, cls, kw) IN
       /\ objs' = st.objs
       /\ dicts' = st.dicts
       /\ call' = [op |-> "__init__", self |-> Len(st.objs), args |-> kw,
                   ret |-> Value(None), exc |-> NoExc]

(* o.assign(kw...) *)
Assign(o, kw) ==
  LET st == assign(State, o, kw) IN
    /\ objs' = st.objs
    /\ dicts' = st.dicts
    /\ call' = [op |-> "assign", self |-> o, args |-> kw, ret |-> Ref(o), exc |-> NoExc]

(* o.is_ready(show_needed) *)
IsReady(o, show_needed) ==
  /\ call' = [op |-> "is_ready", self |-> o, args |-> [show_needed |-> show_needed],
              ret |-> IF show_needed
                      THEN Tuple(is_ready(MapOf(o), TRUE))
                      ELSE Bool(is_ready(MapOf(o), FALSE)),
              exc |-> NoExc]
  /\ UNCHANGED <<objs, dicts>>

(* o.map_id() *)
MapId(o) ==
  /\ call' = [op |-> "map_id", self |-> o, args |-> NoArgs,
              ret |-> Value(map_id(objs[o].cls)), exc |-> NoExc]
  /\ UNCHANGED <<objs, dicts>>

(* o.use_known_map(id).  The receiver is not read: known_maps is the same *)
(* for every instance.                                                     *)
UseKnownMap(o, id) ==
  LET res == use_known_map(State, id) IN
    /\ Len(res.st.objs) <= MaxMappers
    /\ objs' = res.st.objs
    /\ dicts' = res.st.dicts
    /\ call' = [op |-> "use_known_map", self |-> o, args |-> [map_id |-> id],
                ret |-> res.ret, exc |-> res.exc]

(* Programs that hold up to MaxMappers mappers and make a few calls on each. *)
Init == Construct(FewKwargs)

Next ==
  \/ \E cls \in Classes, kw \in FewKwargs : New(cls, kw)
  \/ \E o \in Mappers, kw \in FewKwargs : Assign(o, kw)
  \/ \E o \in Mappers, s \in BOOLEAN : IsReady(o, s)
  \/ \E o \in Mappers : MapId(o)
  \/ \E o \in Mappers, id \in MapIds : UseKnownMap(o, id)

Spec == Init /\ [][Next]_vars

(* Programs that construct one ColumnMapper with any arguments, assign to  *)
(* it with any arguments and ask whether it is ready.                      *)
InitOne == Construct(Kwargs)

NextOne ==
  \/ \E kw \in Kwargs : Assign(1, kw)
  \/ \E s \in BOOLEAN : IsReady(1, s)

SpecOne == InitOne /\ [][NextOne]_vars

----------------------------------------------------------------------------
(* The roles in the order of their declaration, as the claims name them. *)
RoleOrder == <<"id_col", "time_col", "flux_col", "err_col", "band_col">>

(* The position of role r in RoleOrder. *)
Pos(r) == CHOOSE i \in 1..Len(RoleOrder) : RoleOrder[i] = r

(* The ZTF preset as the specification gives it. *)
ZTFPreset ==
  [id_col |-> "ps1_objid", time_col |-> "midPointTai", flux_col |-> "psFlux",
   err_col |-> "psFluxErr", band_col |-> "filterName"]

(* C1: assign overwrites exactly the roles whose argument is not None with *)
(* the value given, leaves every other role as it was, raises nothing and  *)
(* returns the mapper it was called on; so assign() changes no role, and   *)
(* of two assigns to a role the later value is the one stored.             *)
C1_AssignFrame ==
  [][call'.op = "assign" =>
       LET o  == call'.self
           kw == call'.args
       IN  /\ call'.ret = Ref(o)
           /\ call'.exc = NoExc
           /\ objs' = objs
           /\ DOMAIN dicts'[objs'[o].map] = RoleSet
           /\ \A r \in RoleSet :
                dicts'[objs'[o].map][r] =
                  IF kw[r] # None THEN kw[r] ELSE dicts[objs[o].map][r]
           /\ (kw = NoKwargs => dicts' = dicts)]_vars

(* C1 witness: an assign that stored the time_col it was given, kept the  *)
(* value of id_col, which it was not given, and left band_col None.        *)
C1_Witness ==
  /\ call.op = "assign"
  /\ call.args["time_col"] = "a"
  /\ call.args["id_col"] = None
  /\ MapOf(call.self)["time_col"] = "a"
  /\ MapOf(call.self)["id_col"] = ""
  /\ MapOf(call.self)["band_col"] = None

(* C2: right after construction with any of the combinations of the five  *)
(* arguments, is_ready() is true iff all five are not None.                *)
C2_ReadyIffAllGiven ==
  call.op = "__init__" =>
    (is_ready(MapOf(call.self), FALSE) = (\A r \in RoleSet : call.args[r] # None))

(* C2 witnesses: a mapper constructed with all five roles, one of them the *)
(* empty name, is ready.                                                   *)
C2_Witness ==
  /\ call.op = "__init__"
  /\ \A r \in RoleSet : call.args[r] # None
  /\ call.args["flux_col"] = ""
  /\ is_ready(MapOf(call.self), FALSE) = TRUE

(* C3: is_ready(show_needed=True) returns (ready, needed) where needed     *)
(* holds exactly the roles that are None, in the order of declaration, and *)
(* ready is true iff needed is empty; an empty mapper gives (False, all    *)
(* five roles); the call changes no mapping.                               *)
C3_ShowNeeded ==
  [][(call'.op = "is_ready" /\ call'.args.show_needed) =>
       LET m      == dicts[objs[call'.self].map]
           ret    == call'.ret.tuple
           ready  == ret[1]
           needed == ret[2]
       IN  /\ DOMAIN call'.ret = {"tuple"}
           /\ Len(ret) = 2
           /\ \A i \in 1..Len(needed) : needed[i] \in RoleSet /\ m[needed[i]] = None
           /\ \A r \in RoleSet : m[r] = None => \E i \in 1..Len(needed) : needed[i] = r
           /\ \A i, j \in 1..Len(needed) : i < j => Pos(needed[i]) < Pos(needed[j])
           /\ ready = (needed = <<>>)
           /\ (m = NoKwargs => ret = <<FALSE, RoleOrder>>)
           /\ call'.exc = NoExc
           /\ objs' = objs
           /\ dicts' = dicts]_vars

(* C3 witness: is_ready(show_needed=True) reported two roles as needed,    *)
(* the others being set.                                                   *)
C3_Witness ==
  /\ call.op = "is_ready"
  /\ call.args.show_needed
  /\ call.ret = Tuple(<<FALSE, <<"time_col", "band_col">>>>)

(* C4: use_known_map with an identifier that is not registered raises an   *)
(* error whose message names the identifier, and changes no mapper.        *)
C4_UnknownMapping ==
  [][(call'.op = "use_known_map" /\ call'.args.map_id \notin DOMAIN known_maps) =>
       /\ call'.exc.type # None
       /\ (call'.args.map_id = "UNKNOWN" => call'.exc.msg = "Unknown Mapping: \"UNKNOWN\"")
       /\ objs' = objs
       /\ dicts' = dicts]_vars

(* C4 witness: use_known_map("UNKNOWN") failed on a mapper that holds a    *)
(* value, with other mappers in existence.                                 *)
C4_Witness ==
  /\ call.op = "use_known_map"
  /\ call.args.map_id = "UNKNOWN"
  /\ call.exc.type = "ValueError"
  /\ Len(objs) >= 2
  /\ MapOf(call.self)["time_col"] = ""

(* C5: use_known_map("ZTF") returns a mapper whose mapping is the ZTF      *)
(* preset and that is ready, whatever the receiver holds.                  *)
C5_ZTFPreset ==
  (call.op = "use_known_map" /\ call.args.map_id = "ZTF") =>
    /\ call.exc = NoExc
    /\ DOMAIN call.ret = {"ref"}
    /\ call.ret.ref \in Mappers
    /\ MapOf(call.ret.ref) = ZTFPreset
    /\ is_ready(MapOf(call.ret.ref), FALSE) = TRUE

(* C5 witness: use_known_map("ZTF") on a base mapper that is not ready and *)
(* holds a value of its own.                                               *)
C5_Witness ==
  /\ call.op = "use_known_map"
  /\ call.args.map_id = "ZTF"
  /\ objs[call.self].cls = "ColumnMapper"
  /\ MapOf(call.self)["time_col"] = ""
  /\ MapOf(call.self)["id_col"] = None
  /\ MapOf(call.ret.ref)["time_col"] = "midPointTai"

(* C6: use_known_map leaves every existing mapper, the receiver included,  *)
(* as it was; the mapper it returns is a new instance whose dict no other  *)
(* mapper refers to; an assign on one mapper changes no other mapper.      *)
C6_Independent ==
  [][/\ call'.op = "use_known_map" =>
          /\ \A p \in 1..Len(objs) :
                /\ p \in 1..Len(objs')
                /\ objs'[p] = objs[p]
                /\ dicts'[objs'[p].map] = dicts[objs[p].map]
          /\ call'.exc = NoExc =>
                /\ DOMAIN call'.ret = {"ref"}
                /\ call'.ret.ref \notin 1..Len(objs)
                /\ call'.ret.ref \in 1..Len(objs')
                /\ \A p \in 1..Len(objs') :
                      p # call'.ret.ref => objs'[p].map # objs'[call'.ret.ref].map
     /\ call'.op = "assign" =>
          \A p \in 1..Len(objs) :
            p # call'.self => /\ objs'[p] = objs[p]
                               /\ dicts'[objs'[p].map] = dicts[objs[p].map]]_vars

(* C6 witness: of two mappers that use_known_map returned, one was         *)
(* assigned to and the other still holds the preset.                       *)
C6_Witness ==
  /\ Len(objs) >= 3
  /\ call.op = "assign"
  /\ call.self = 3
  /\ call.args["time_col"] = ""
  /\ objs[2].cls = "ZTFColumnMapper"
  /\ objs[3].cls = "ZTFColumnMapper"
  /\ MapOf(2) = ZTFPreset
  /\ MapOf(3) = [ZTFPreset EXCEPT !["time_col"] = ""]

(* C7, as the specification states it: every mapping has exactly the five  *)
(* role keys, and every value is a non-empty string or None.               *)
C7_NonEmptyOrAbsent ==
  \A o \in Mappers :
    /\ DOMAIN MapOf(o) = RoleSet
    /\ \A r \in RoleSet : MapOf(o)[r] = None \/ MapOf(o)[r] # ""

(* The strings a mapping can hold: those passed in and those of the preset. *)
Values == Strings \cup {ZTFPreset[r] : r \in RoleSet}

(* C7, amended: every mapping has exactly the five role keys, and every    *)
(* value is a string, possibly the empty one, or None.                     *)
C7_FiveKeys ==
  \A o \in Mappers :
    /\ DOMAIN MapOf(o) = RoleSet
    /\ \A r \in RoleSet : MapOf(o)[r] = None \/ MapOf(o)[r] \in Values

(* C7 witness: after an assign, a preset mapper holds the empty name.      *)
C7_Witness ==
  /\ call.op = "assign"
  /\ objs[call.self].cls = "ZTFColumnMapper"
  /\ MapOf(call.self)["time_col"] = ""
  /\ MapOf(call.self)["id_col"] = "ps1_objid"

(* C8: a preset mapper has no role unassigned in any state, from its       *)
(* construction on, so is_ready() is true for it.                          *)
C8_PresetAlwaysReady ==
  \A o \in Mappers :
    objs[o].cls = "ZTFColumnMapper" =>
      /\ \A r \in RoleSet : MapOf(o)[r] # None
      /\ is_ready(MapOf(o), FALSE) = TRUE

(* C9: map_id() is None for ColumnMapper and "ZTF" for ZTFColumnMapper,    *)
(* whatever the instance holds, and the mapper use_known_map(id) returns   *)
(* has map_id() equal to id.                                               *)
C9_MapId ==
  /\ call.op = "map_id" =>
       /\ call.exc = NoExc
       /\ objs[call.self].cls = "ColumnMapper" => call.ret = Value(None)
       /\ objs[call.self].cls = "ZTFColumnMapper" => call.ret = Value("ZTF")
  /\ (call.op = "use_known_map" /\ call.exc = NoExc) =>
       map_id(objs[call.ret.ref].cls) = call.args.map_id

(* C9 witness: map_id() answered "ZTF" on a ZTFColumnMapper that holds no  *)
(* preset value.                                                           *)
C9_Witness ==
  /\ call.op = "map_id"
  /\ call.ret = Value("ZTF")
  /\ MapOf(call.self)["id_col"] = None

(* The elements of a sequence. *)
Range(q) == {q[i] : i \in 1..Len(q)}

(* C10: a role that holds a value never becomes None again, so a mapper    *)
(* that is ready stays ready and the needed list never gains a role.       *)
C10_Monotone ==
  [][\A o \in 1..Len(objs) :
       /\ o \in 1..Len(objs')
       /\ LET m == dicts[objs[o].map]
              n == dicts'[objs'[o].map]
          IN  /\ \A r \in RoleSet : m[r] # None => n[r] # None
              /\ is_ready(m, FALSE) => is_ready(n, FALSE)
              /\ Range(is_ready(n, TRUE)[2]) \subseteq Range(is_ready(m, TRUE)[2])]_vars

(* C10 witness: an assign without arguments on a mapper that holds a       *)
(* value and is not ready.                                                 *)
C10_Witness ==
  /\ call.op = "assign"
  /\ call.args = NoKwargs
  /\ objs[call.self].cls = "ColumnMapper"
  /\ MapOf(call.self)["time_col"] = ""

====
